---- MODULE Spec2Model ----
(***************************************************************************)
(* Community Notes Assistant (src/app.py): the Streamlit session state,    *)
(* the sidebar loader that samples example rows and encodes them into the  *)
(* conversation-history text, the chat form that calls the Claude API, and *)
(* the Sample Notes tab that decodes the text again for display.           *)
(*                                                                         *)
(* Text is a sequence of one-character strings, so that strip, split,      *)
(* startswith and the f-string of the encoder are computed as Python       *)
(* computes them.  One action is one run of the script, triggered by one   *)
(* widget; what the Sample Notes tab renders is a function of the state.   *)
(***************************************************************************)
EXTENDS Integers, Sequences, FiniteSets, TLC

VARIABLES
    messages,              \* st.session_state.messages: the displayed turn log
    client,                \* st.session_state.client is set (TRUE) or None (FALSE)
    df,                    \* st.session_state.df: None or the table load_data returned
    conversation_history,  \* st.session_state.conversation_history: the transcript text
    samples_generated,     \* st.session_state.samples_generated
    debug_info,            \* st.session_state.debug_info
    fetched,               \* what the last dataset download produced (None: it failed)
    random_indices,        \* the indices random.sample drew in the last successful load
    selected_rows,         \* valid_df.iloc[random_indices] of the last successful load
    api_messages,          \* the messages list of the last client.messages.create call
    event                  \* the widget that triggered the last run, with its inputs

vars == << messages, client, df, conversation_history, samples_generated, debug_info,
           fetched, random_indices, selected_rows, api_messages, event >>

----------------------------------------------------------------------------
(* Bounds of the model *)

MaxRows == 2          \* rows of a downloaded table
MaxSampleCount == 3   \* largest value of the "Number of samples" input that is tried
MaxLog == 4           \* turns the log may hold before further submits are cut off

(* Program constants *)

SepWidth == 80        \* '-' * 80

----------------------------------------------------------------------------
(* Text *)

NL == "\n"

Whitespace == {" ", "\n", "\t", "\r"}

RECURSIVE LStrip(_)
LStrip(s) == IF s # <<>> /\ Head(s) \in Whitespace THEN LStrip(Tail(s)) ELSE s

RECURSIVE RStrip(_)
RStrip(s) ==
    IF s # <<>> /\ s[Len(s)] \in Whitespace THEN RStrip(SubSeq(s, 1, Len(s) - 1)) ELSE s

\* str.strip()
Strip(s) == RStrip(LStrip(s))

\* str.startswith(p)
StartsWith(s, p) == Len(s) >= Len(p) /\ SubSeq(s, 1, Len(p)) = p

\* str.split('\n'): the text between the newlines, one entry more than newlines
RECURSIVE Split(_)
Split(s) ==
    IF \A i \in 1..Len(s) : s[i] # NL
    THEN << s >>
    ELSE LET i == CHOOSE j \in 1..Len(s) :
                      s[j] = NL /\ \A k \in 1..(j - 1) : s[k] # NL
         IN  << SubSeq(s, 1, i - 1) >> \o Split(SubSeq(s, i + 1, Len(s)))

UserPrefix == << "U", "s", "e", "r", ":", " " >>

AssistantPrefix == << "A", "s", "s", "i", "s", "t", "a", "n", "t", ":", " " >>

\* '-' * 80
Separator == [i \in 1..SepWidth |-> "-"]

NoContentText ==
    << "N", "o", " ", "r", "e", "s", "p", "o", "n", "s", "e", " ", "c", "o", "n", "t",
       "e", "n", "t", " ", "r", "e", "c", "e", "i", "v", "e", "d", "." >>

FailedPrefix ==
    << "A", "P", "I", " ", "r", "e", "q", "u", "e", "s", "t", " ", "f", "a", "i", "l",
       "e", "d", ":", " " >>

DebugText == "Sending message to API without conversation history"

----------------------------------------------------------------------------
(* The dataset: load_data *)

\* An optional value: None, or Some(x)
None == {}

Some(x) == {x}

Get(o) == CHOOSE x \in o : TRUE

\* a missing cell of the DataFrame
NaN == << "NaN" >>

notna(c) == c # NaN

\* the row filter of load_data
RowIsValid(row) ==
    /\ notna(row.tweet_content)
    /\ Strip(row.tweet_content) # <<>>
    /\ notna(row.summary)
    /\ Strip(row.summary) # <<>>

\* load_data whose filter forgets the summary column
load_data_tweet_only(resp) ==
    IF resp = None THEN None
    ELSE LET TweetOk(row) == notna(row.tweet_content) /\ Strip(row.tweet_content) # <<>>
         IN  Some(SelectSeq(Get(resp), TweetOk))

\* load_data that returns an empty table where the download failed
load_data_empty_on_error(resp) ==
    IF resp = None THEN Some(<<>>) ELSE Some(SelectSeq(Get(resp), RowIsValid))

\* load_data(url): None when the download, the parse or the column check fails
\* (resp = None), else the rows of the two-column table that pass the filter.
\* The one-hour cache is left out: the URL is an input of every load, so any
\* download may follow any other.
load_data(resp) ==
    IF resp = None THEN None ELSE Some(SelectSeq(Get(resp), RowIsValid))

----------------------------------------------------------------------------
(* The sidebar handler: sampling and encoding *)

Min(a, b) == IF a <= b THEN a ELSE b

\* n = min(sample_count, len(valid_df)), with the clamp that follows it
SampleSize(sample_count, valid_df) ==
    LET n == Min(sample_count, Len(valid_df))
    IN  IF Len(valid_df) < n THEN Len(valid_df) ELSE n

\* random.sample(range(len), n): every sequence of n pairwise distinct indices
RandomSample(len, n) ==
    { s \in [1..n -> 1..len] : \A i, j \in 1..n : i # j => s[i] # s[j] }

\* valid_df.iloc[random_indices]
Iloc(valid_df, indices) == [i \in 1..Len(indices) |-> valid_df[indices[i]]]

\* the f-string without the separator line
FormatSampleNoSeparator(tweet, summary) ==
    UserPrefix \o tweet \o << NL >> \o AssistantPrefix \o summary \o << NL >>

\* f"User: {tweet}\nAssistant: {summary}\n{'-' * 80}\n"
FormatSample(tweet, summary) ==
    UserPrefix \o tweet \o << NL >> \o AssistantPrefix \o summary \o << NL >>
        \o Separator \o << NL >>

\* the loop over selected_rows.iterrows()
RECURSIVE AppendSamples(_, _)
AppendSamples(history, rows) ==
    IF rows = <<>> THEN history
    ELSE LET tweet == Strip(Head(rows).tweet_content)
             summary == Strip(Head(rows).summary)
         IN  AppendSamples(IF tweet = <<>> \/ summary = <<>>
                             THEN history
                             ELSE history \o FormatSample(tweet, summary),
                           Tail(rows))

\* the loop run on the previous text, without clearing it first
ExtendConversationHistory(previous, rows) == AppendSamples(previous, rows)

\* "Clear previous samples", then "Build conversation history"
BuildConversationHistory(previous, rows) == AppendSamples(<<>>, rows)

----------------------------------------------------------------------------
(* The Sample Notes tab: decoding *)

Sample(u, a) == [user |-> u, assistant |-> a]

\* the loop over conversation_lines, and the "Display the last one" after it
RECURSIVE ShowLines(_, _, _, _)
ShowLines(lines, current_user, current_assistant, shown) ==
    LET complete == current_user # <<>> /\ current_assistant # <<>>
        flushed == Append(shown, Sample(current_user, current_assistant))
    IN  IF lines = <<>>
        THEN IF complete THEN flushed ELSE shown
        ELSE LET line == Head(lines)
                 rest == Tail(lines)
             IN  IF StartsWith(line, UserPrefix)
                 THEN ShowLines(rest, SubSeq(line, 7, Len(line)), <<>>,
                                IF complete THEN flushed ELSE shown)
                 ELSE IF StartsWith(line, AssistantPrefix)
                 THEN ShowLines(rest, current_user, SubSeq(line, 12, Len(line)), shown)
                 ELSE IF StartsWith(line, Separator) /\ complete
                 THEN ShowLines(rest, <<>>, <<>>, flushed)
                 ELSE ShowLines(rest, current_user, current_assistant, shown)

\* tab2: the samples displayed, none when the guard sends it to st.info
SampleNotesTab(generated, table, history) ==
    IF generated /\ table # None
    THEN ShowLines(Split(Strip(history)), <<>>, <<>>, <<>>)
    ELSE <<>>

----------------------------------------------------------------------------
(* The chat: call_claude_api and the form handler *)

Message(role, content) == [role |-> role, content |-> content]

\* the outcomes of client.messages.create
Text(t) == [kind |-> "text", text |-> t]

NoContent == [kind |-> "empty", text |-> <<>>]

Raises(e) == [kind |-> "raise", text |-> e]

NoCall == [kind |-> "none", text |-> <<>>]

\* a request that sends the history text as a user message of its own
RequestMessagesWithHistory(user_message, history) ==
    IF history = <<>>
    THEN << Message("user", user_message) >>
    ELSE << Message("user", history), Message("user", user_message) >>

\* messages = [{"role": "user", "content": user_message}]
RequestMessages(user_message, history) == << Message("user", user_message) >>

\* call_claude_api that returns an empty reply where the request failed
call_claude_api_silent(user_message, history, result) ==
    IF result.kind = "text" THEN result.text ELSE <<>>

\* call_claude_api: the text it returns, given what client.messages.create did
call_claude_api(user_message, history, result) ==
    IF result.kind = "raise" THEN FailedPrefix \o result.text
    ELSE IF result.kind = "text" THEN result.text
    ELSE NoContentText

\* the form handler that puts the reply before the user's message
ChatFormLogReplyFirst(log, user_input, has_client, result) ==
    IF user_input = <<>> THEN log
    ELSE IF has_client
    THEN log \o << Message("assistant",
                           call_claude_api(user_input, conversation_history, result)),
                   Message("user", user_input) >>
    ELSE Append(log, Message("user", user_input))

\* "if submit_button and user_input": the log after the form handler
ChatFormLog(log, user_input, has_client, result) ==
    IF user_input = <<>> THEN log
    ELSE IF has_client
    THEN log \o << Message("user", user_input),
                   Message("assistant",
                           call_claude_api(user_input, conversation_history, result)) >>
    ELSE Append(log, Message("user", user_input))

\* a clear that keeps the oldest turn
ClearedLogKeepsFirst(log) == IF log = <<>> THEN <<>> ELSE << Head(log) >>

\* st.session_state.messages = []
ClearedLog(log) == <<>>

----------------------------------------------------------------------------
(* Inputs *)

Row(tweet, summary) == [tweet_content |-> tweet, summary |-> summary]

MultiLineTweet == << " ", "A", "\n", "B", " " >>

\* the rows a downloaded table is made of: two that pass the filter of load_data
\* (one of them multi-line, with blanks around it) and one for each way to fail it
Rows ==
    { Row(<< "A" >>, << "a" >>),
      Row(MultiLineTweet, << "a", " " >>),
      Row(<< " " >>, << "b" >>),
      Row(<< "C" >>, NaN),
      Row(<< "C" >>, <<>>),
      Row(NaN, << "c" >>) }

Tables == UNION { [1..k -> Rows] : k \in 0..MaxRows }

Responses == { None } \cup { Some(t) : t \in Tables }

\* the table of the end-to-end scenario: [{"A","a"}, {"","b"}, {"C","c"}]
ExampleTable ==
    << Row(<< "A" >>, << "a" >>), Row(<<>>, << "b" >>), Row(<< "C" >>, << "c" >>) >>

MultiLineTable == << Row(MultiLineTweet, << "a", " " >>) >>

\* the downloads of a chat session
SessionResponses == { None, Some(ExampleTable), Some(MultiLineTable) }

SampleCounts == 1..MaxSampleCount

UserInputs == { <<>>, << "D" >> }

ApiResults == { Text(<< "N", "N", "N" >>), NoContent, Raises(<< "4", "0", "1" >>) }

Event(kind, user_input, result, sample_count) ==
    [kind |-> kind, user_input |-> user_input, result |-> result,
     sample_count |-> sample_count]

----------------------------------------------------------------------------
(* The session *)

Init ==
    /\ messages = <<>>
    /\ client \in BOOLEAN
    /\ df = None
    /\ conversation_history = <<>>
    /\ samples_generated = FALSE
    /\ debug_info = ""
    /\ fetched = None
    /\ random_indices = <<>>
    /\ selected_rows = <<>>
    /\ api_messages = <<>>
    /\ event = Event("start", <<>>, NoCall, 0)

\* the "Load Data & Generate Samples" button
LoadData(resp, sample_count) ==
    LET new_df == load_data(resp)
    IN  /\ fetched' = resp
        /\ df' = new_df
        /\ IF new_df # None
           THEN LET valid_df == Get(new_df)
                    n == SampleSize(sample_count, valid_df)
                IN  \E indices \in RandomSample(Len(valid_df), n) :
                        LET rows == Iloc(valid_df, indices)
                            history == BuildConversationHistory(conversation_history,
                                                                rows)
                        IN  /\ random_indices' = indices
                            /\ selected_rows' = rows
                            /\ conversation_history' = history
                            /\ samples_generated' = TRUE
           ELSE UNCHANGED << random_indices, selected_rows, conversation_history,
                             samples_generated >>
        /\ event' = Event("load", <<>>, NoCall, sample_count)
        /\ UNCHANGED << messages, client, debug_info, api_messages >>

\* the API key field: a key that builds a client sets it, anything else leaves it
SetApiKey(ok) ==
    /\ client' = (ok \/ client)
    /\ event' = Event("apikey", <<>>, NoCall, 0)
    /\ UNCHANGED << messages, df, conversation_history, samples_generated, debug_info,
                    fetched, random_indices, selected_rows, api_messages >>

\* the "Send" button of chat_form; MaxLog cuts the growth of the log off
Submit(user_input, result) ==
    LET called == user_input # <<>> /\ client
    IN  /\ Len(messages) + 2 <= MaxLog
        /\ messages' = ChatFormLog(messages, user_input, client, result)
        /\ api_messages' = IF called
                             THEN RequestMessages(user_input, conversation_history)
                             ELSE api_messages
        /\ debug_info' = IF called THEN DebugText ELSE debug_info
        /\ event' = Event("submit", user_input, IF called THEN result ELSE NoCall, 0)
        /\ UNCHANGED << client, df, conversation_history, samples_generated, fetched,
                        random_indices, selected_rows >>
    
\* the "Clear Chat History" button; the rerun it asks for changes no session state
ClearChatHistory ==
    /\ messages' = ClearedLog(messages)
    /\ event' = Event("clear", <<>>, NoCall, 0)
    /\ UNCHANGED << client, df, conversation_history, samples_generated, debug_info,
                    fetched, random_indices, selected_rows, api_messages >>

Next ==
    \/ \E resp \in SessionResponses, sample_count \in SampleCounts :
           LoadData(resp, sample_count)
    \/ \E ok \in BOOLEAN : SetApiKey(ok)
    \/ \E user_input \in UserInputs, result \in ApiResults : Submit(user_input, result)
    \/ ClearChatHistory

\* what tab2 displays in the current state of the session
samples_shown == SampleNotesTab(samples_generated, df, conversation_history)

\* a chat session: the four widgets, over the downloads of a session
Spec == Init /\ [][Next]_vars

LoaderNext ==
    \E resp \in Responses, sample_count \in SampleCounts : LoadData(resp, sample_count)

\* the loader alone, over every table of at most MaxRows rows
LoaderSpec == Init /\ [][LoaderNext]_vars

----------------------------------------------------------------------------
(* What the claims speak of *)

\* the text of a cell, a missing cell having none
TextOf(c) == IF c = NaN THEN <<>> ELSE c

\* an eligible pair: trimmed input and trimmed response both non-empty
Eligible(row) ==
    Strip(TextOf(row.tweet_content)) # <<>> /\ Strip(TextOf(row.summary)) # <<>>

\* the (input, response) pair a sampled row stands for
PairOf(row) == Sample(Strip(row.tweet_content), Strip(row.summary))

PairsOf(rows) == [i \in 1..Len(rows) |-> PairOf(rows[i])]

\* one complete record of the transcript format
Record(pair) ==
    UserPrefix \o pair.user \o << NL >> \o AssistantPrefix \o pair.assistant
        \o << NL >> \o [i \in 1..80 |-> "-"] \o << NL >>

RECURSIVE Concat(_)
Concat(texts) == IF texts = <<>> THEN <<>> ELSE Head(texts) \o Concat(Tail(texts))

Transcript(pairs) == Concat([i \in 1..Len(pairs) |-> Record(pairs[i])])

\* the Turns of a sequence of pairs: user, assistant, user, assistant, ...
RECURSIVE TurnsOf(_)
TurnsOf(pairs) ==
    IF pairs = <<>> THEN <<>>
    ELSE << Message("user", Head(pairs).user),
            Message("assistant", Head(pairs).assistant) >> \o TurnsOf(Tail(pairs))

\* no line of the text starts with a role prefix or is the separator line
FreeOfMarkers(text) ==
    \A line \in { Split(text)[i] : i \in 1..Len(Split(text)) } :
        /\ ~StartsWith(line, UserPrefix)
        /\ ~StartsWith(line, AssistantPrefix)
        /\ line # Separator

Last(seq) == seq[Len(seq)]

\* the last run was a submit that called the API / whose call failed
Dispatched == event.kind = "submit" /\ event.result.kind # "none"

FailedSubmit == event.kind = "submit" /\ event.result.kind \in {"raise", "empty"}

\* the text a failed call leaves behind
FailureText(result) ==
    IF result.kind = "raise" THEN FailedPrefix \o result.text ELSE NoContentText

Roles(msgs) == [i \in 1..Len(msgs) |-> msgs[i].role]

Alternates(msgs) ==
    \A i \in 1..Len(msgs) : msgs[i].role = IF i % 2 = 1 THEN "user" ELSE "assistant"

----------------------------------------------------------------------------
(* C1: a submit whose generation call fails *)

\* C1 as stated: after a submit whose generation call failed (it raised, or returned
\* no content) the log ends with the user Turn of that input, and no assistant Turn
\* was appended for the submission.
C1_FailedSubmitEndsWithUserTurn ==
    FailedSubmit =>
        /\ messages # <<>>
        /\ Last(messages) = Message("user", event.user_input)

\* C1 amended: a submit whose generation call fails appends to the log the user Turn
\* of that input and then one assistant Turn that carries the failure text
\* ("API request failed: " and the cause, or "No response content received.").
C1_FailedSubmitRecordsFailureText ==
    [][ (event'.kind = "submit" /\ event'.result.kind \in {"raise", "empty"}) =>
            messages' = messages \o << Message("user", event'.user_input),
                                       Message("assistant", FailureText(event'.result)) >>
      ]_vars

C1_Witness ==
    /\ FailedSubmit
    /\ event.result.kind = "raise"
    /\ Len(messages) = 4
    /\ Last(messages).role = "assistant"

----------------------------------------------------------------------------
(* C2: the message list a submit dispatches while the transcript is non-empty *)

\* C2 as stated: a submit made while the transcript is non-empty dispatches the
\* Turns decoded from the transcript (role, content and order kept) followed by the
\* user message of the input: 2k+1 messages for a transcript of k pairs.
C2_DispatchCarriesTranscript ==
    (Dispatched /\ conversation_history # <<>>) =>
        /\ api_messages = TurnsOf(PairsOf(selected_rows))
                              \o << Message("user", event.user_input) >>
        /\ Len(api_messages) = 2 * Len(selected_rows) + 1

----------------------------------------------------------------------------
(* C3: the shape of every dispatched message list *)

\* C3: whatever the transcript holds, the message list a submit dispatches is not
\* empty, its roles alternate user, assistant, ..., user, and its last element is the
\* user message of the input; with an empty transcript it is that element alone.
C3_DispatchAlternates ==
    Dispatched =>
        /\ api_messages # <<>>
        /\ Alternates(api_messages)
        /\ Last(api_messages) = Message("user", event.user_input)
        /\ event.user_input # <<>>
        /\ conversation_history = <<>> =>
               api_messages = << Message("user", event.user_input) >>

C3_Witness ==
    /\ Dispatched
    /\ conversation_history # <<>>
    /\ Len(selected_rows) = 2
    /\ api_messages = << Message("user", << "D" >>) >>

----------------------------------------------------------------------------
(* C4: decoding what the encoder wrote *)

\* C4 as stated: for pairs with non-empty trimmed fields, fields of several lines
\* included, whose lines never start with "User: " or "Assistant: " and never are the
\* separator line, decoding the encoding of the pairs yields the same pairs, in the
\* same order, with their full content.
C4_DecodeOfEncodeIsIdentity ==
    ( /\ samples_generated
      /\ df # None
      /\ \A i \in 1..Len(selected_rows) :
             /\ FreeOfMarkers(PairOf(selected_rows[i]).user)
             /\ FreeOfMarkers(PairOf(selected_rows[i]).assistant) ) =>
        samples_shown = PairsOf(selected_rows)

----------------------------------------------------------------------------
(* C5: a successful load replaces the transcript and leaves the log *)

LoadEnabled ==
    ENABLED (\E resp \in SessionResponses, sample_count \in SampleCounts :
                 LoadData(resp, sample_count))

\* C5: a load can be made in every session state; a load that succeeds sets the
\* transcript to the encoding of the newly sampled pairs alone (nothing of the
\* previous transcript survives) and leaves the displayed log as it was.
C5_LoadReplacesTranscript ==
    /\ []LoadEnabled
    /\ [][ (event'.kind = "load" /\ df' # None) =>
               /\ selected_rows' = Iloc(Get(df'), random_indices')
               /\ conversation_history' = Transcript(PairsOf(selected_rows'))
               /\ messages' = messages
         ]_vars

C5_Witness ==
    /\ event.kind = "load"
    /\ df # None
    /\ messages # <<>>
    /\ Len(random_indices) = 1
    /\ Get(df) = MultiLineTable
    /\ conversation_history = Record(Sample(<< "A", "\n", "B" >>, << "a" >>))

----------------------------------------------------------------------------
(* C6: clearing the log *)

ClearEnabled == ENABLED ClearChatHistory

\* C6: the log can be cleared in every session state; after a clear the displayed
\* log is empty, and the transcript, the example table and the samples-generated
\* flag are what they were.
C6_ClearEmptiesLogOnly ==
    /\ []ClearEnabled
    /\ [][ event'.kind = "clear" =>
               /\ messages' = <<>>
               /\ conversation_history' = conversation_history
               /\ df' = df
               /\ samples_generated' = samples_generated
         ]_vars

C6_Witness ==
    /\ event.kind = "clear"
    /\ messages = <<>>
    /\ debug_info = DebugText
    /\ conversation_history # <<>>
    /\ df # None
    /\ samples_generated

----------------------------------------------------------------------------
(* C7: what a load samples *)

EligibleCount(table) == Len(SelectSeq(table, Eligible))

LinesWith(text, Test(_)) ==
    Cardinality({ i \in 1..Len(Split(text)) : Test(Split(text)[i]) })

IsUserLine(line) == StartsWith(line, UserPrefix)

IsSeparatorLine(line) == line = Separator

\* C7: a load of any table with any requested count n samples min(n, eligible_count)
\* rows, at pairwise distinct indices, every one of them eligible; the transcript
\* holds that many encoded pairs; the table keeps its eligible rows as downloaded.
C7_SampleSizeAndEligibility ==
    (event.kind = "load" /\ fetched # None) =>
        /\ df = Some(SelectSeq(Get(fetched), Eligible))
        /\ Len(random_indices) = Min(event.sample_count, EligibleCount(Get(fetched)))
        /\ \A i, j \in 1..Len(random_indices) :
               i # j => random_indices[i] # random_indices[j]
        /\ \A i \in 1..Len(random_indices) :
               /\ random_indices[i] \in 1..Len(Get(df))
               /\ selected_rows[i] = Get(df)[random_indices[i]]
               /\ Eligible(selected_rows[i])
        /\ Len(selected_rows) = Len(random_indices)
        /\ LinesWith(conversation_history, IsUserLine) = Len(random_indices)
        /\ LinesWith(conversation_history, IsSeparatorLine) = Len(random_indices)

C7_Witness ==
    /\ event.kind = "load"
    /\ fetched # None
    /\ Len(Get(fetched)) > Len(Get(df))
    /\ event.sample_count > Len(random_indices)
    /\ Len(random_indices) = 1

----------------------------------------------------------------------------
(* C8: the form of the transcript *)

\* C8: the transcript is always empty or the concatenation, in sampled order, of
\* complete records "User: " input, newline, "Assistant: " response, newline, 80
\* dashes, newline, with input and response non-empty after trimming: no record is
\* left without its assistant line, and the last record has its separator.
C8_TranscriptIsCompleteRecords ==
    /\ conversation_history = Transcript(PairsOf(selected_rows))
    /\ \A i \in 1..Len(selected_rows) :
           /\ PairOf(selected_rows[i]).user # <<>>
           /\ PairOf(selected_rows[i]).assistant # <<>>
           /\ notna(selected_rows[i].tweet_content)
           /\ notna(selected_rows[i].summary)
    /\ conversation_history # <<>> =>
           SubSeq(conversation_history, Len(conversation_history) - 80,
                  Len(conversation_history)) = [i \in 1..80 |-> "-"] \o << NL >>

C8_Witness ==
    /\ Len(selected_rows) = 2
    /\ conversation_history = Transcript(<< Sample(<< "C" >>, << "c" >>),
                                            Sample(<< "A" >>, << "a" >>) >>)
    /\ df = None
    /\ messages # <<>>

----------------------------------------------------------------------------
(* C9: what a submit does to the log *)

UserTurns(msgs) == Cardinality({ i \in 1..Len(msgs) : msgs[i].role = "user" })

\* C9: a submit with non-empty input grows the log by exactly one user Turn with that
\* input and, when the generation call succeeds, by exactly one assistant Turn with
\* the returned text right after it; a submit with empty input changes neither the
\* log nor the transcript.  So every assistant Turn of the log follows a user Turn.
C9_SubmitGrowsLog ==
    /\ [][ event'.kind = "submit" =>
               /\ event'.user_input # <<>> =>
                      /\ Len(messages') > Len(messages)
                      /\ SubSeq(messages', 1, Len(messages) + 1) =
                             Append(messages, Message("user", event'.user_input))
                      /\ UserTurns(messages') = UserTurns(messages) + 1
                      /\ event'.result.kind = "text" =>
                             messages' = messages \o
                                 << Message("user", event'.user_input),
                                    Message("assistant", event'.result.text) >>
                      /\ event'.result.kind = "none" =>
                             messages' = Append(messages,
                                                Message("user", event'.user_input))
               /\ event'.user_input = <<>> =>
                      /\ messages' = messages
                      /\ conversation_history' = conversation_history
         ]_vars
    /\ [](\A i \in 1..Len(messages) :
              messages[i].role = "assistant" => (i > 1 /\ messages[i - 1].role = "user"))

C9_Witness ==
    /\ event.kind = "submit"
    /\ event.result.kind = "text"
    /\ Len(messages) = 3
    /\ Roles(messages) = << "user", "user", "assistant" >>
    /\ conversation_history # <<>>

----------------------------------------------------------------------------
(* C10: a load whose download fails *)

\* C10: a load whose download fails leaves the transcript, the displayed log and the
\* samples-generated flag as they were, and unsets the example table; after a load
\* that succeeded and one that failed the transcript still holds the earlier samples
\* with no table loaded.
C10_FailedLoadKeepsTranscript ==
    [][ (event'.kind = "load" /\ fetched' = None) =>
            /\ df' = None
            /\ conversation_history' = conversation_history
            /\ messages' = messages
            /\ samples_generated' = samples_generated
      ]_vars

C10_Witness ==
    /\ event.kind = "load"
    /\ fetched = None
    /\ df = None
    /\ samples_generated
    /\ conversation_history # <<>>
    /\ messages # <<>>

====
